---- MODULE Spec2Model ----
\* Model of the memory storage/search core (src/services/storage.py):
\* the two ChromaDB collections, the in-memory relationship map and the
\* operations of StorageService.
EXTENDS Integers, Sequences, FiniteSets, TLC

\* ---------------------------------------------------------------- bounds
NumIds == 3          \* memory ids are 1..NumIds
MaxRels == 2         \* relationship ids ever allocated
MaxTime == 1         \* the clock runs 0..MaxTime
MaxOps == 3          \* operations in one run
MaxWrap == 3         \* nesting depth of {"text": ...} payloads
MaxLimit == 2        \* search limits are 1..MaxLimit

Ids == 1..NumIds
RelIds == 1..MaxRels

\* ------------------------------------------------------- configuration
use_dual_embeddings == TRUE
embedding_weight_primary == 4      \* 0.4, in tenths
embedding_weight_secondary == 6    \* 0.6, in tenths
similarity_threshold == 700        \* 0.7, in thousandths
fallback_threshold == 600          \* 0.6, in thousandths
tag_boost == 50                    \* 0.05, in thousandths

\* Optional[T] is a sequence of length 0 (None) or 1.
None == <<>>
Some(v) == <<v>>

VARIABLES
  memories_collection,   \* primary collection: id -> [embedding, metadata, document]
  metadata_collection,   \* secondary collection, same shape
  relationships,         \* self._relationships: relationship id -> relationship
  next_rel,              \* next fresh relationship id (uuid4)
  now,                   \* datetime.utcnow()
  nops,                  \* operations performed so far
  call,                  \* the last operation and its arguments
  ret,                   \* what it returned
  threads,               \* per thread: where it is in the code it runs, its locals
  storage_service,       \* the module global _storage_service
  instances              \* StorageService objects constructed so far

vars == <<memories_collection, metadata_collection, relationships, next_rel,
          now, nops, call, ret,
          threads, storage_service, instances>>

\* The variables of the threads and of the process-wide singleton.
process_vars == <<threads, storage_service, instances>>

\* ------------------------------------------------------------ payloads
\* A content payload is a dict. [base |-> b, wraps |-> 0] is the dict b;
\* [base |-> b, wraps |-> n+1] is {"text": json.dumps(<b wrapped n times>)}.
Bases == {"d1", "d2"}
Contents == [base : Bases, wraps : 0..MaxWrap]

\* _extract_text: json.dumps(content, indent=2). Memory.content is always a
\* dict, so the str(content) branch is not taken.
extract_text(content) == [json |-> content]

\* {"text": text}, the payload get/search/list_all rebuild from the text.
content_from_text(text) == [base |-> text.json.base, wraps |-> text.json.wraps + 1]

\* str(uuid) / UUID(str), datetime.isoformat() / datetime.fromisoformat()
str_uuid(id) == [str |-> id]
UUID(s) == s.str
isoformat(t) == [iso |-> t]
fromisoformat(s) == s.iso

\* ---------------------------------------------------------------- tags
\* A tag is a string, modelled as a sequence of characters.
RECURSIVE join(_)
join(tags) ==
  IF tags = <<>> THEN <<>>
  ELSE IF Len(tags) = 1 THEN tags[1]
  ELSE tags[1] \o <<",">> \o join(Tail(tags))

RECURSIVE split(_)
split(s) ==
  IF \A i \in 1..Len(s) : s[i] # "," THEN <<s>>
  ELSE LET i == CHOOSE k \in 1..Len(s) : s[k] = "," /\ \A j \in 1..(k-1) : s[j] # ","
       IN  <<SubSeq(s, 1, i-1)>> \o split(SubSeq(s, i+1, Len(s)))

RECURSIVE lstrip(_)
lstrip(s) == IF Len(s) > 0 /\ s[1] = " " THEN lstrip(Tail(s)) ELSE s

RECURSIVE rstrip(_)
rstrip(s) == IF Len(s) > 0 /\ s[Len(s)] = " " THEN rstrip(SubSeq(s, 1, Len(s)-1)) ELSE s

strip(s) == rstrip(lstrip(s))

\* [tag.strip() for tag in s.split(',') if tag.strip()]
decode_tags(s) ==
  LET parts == split(s)
      stripped == [i \in 1..Len(parts) |-> strip(parts[i])]
  IN  SelectSeq(stripped, LAMBDA t : Len(t) > 0)

\* ---------------------------------------------------------- embeddings
\* The embedding generator is deterministic in (model, text).
generate_embedding(text) == [model |-> "L6", text |-> text]

generate_dual_embeddings(text) ==
  <<[model |-> "L6", text |-> text], [model |-> "L12", text |-> text]>>

\* -------------------------------------------------------- relationships
\* The source matches followed by the target matches.
get_relationships_twice(R, memory_id) ==
  LET all == [i \in 1..MaxRels |-> i]
      from(i) == i \in DOMAIN R /\ R[i].from_memory_id = memory_id
      to(i) == i \in DOMAIN R /\ R[i].to_memory_id = memory_id
      ids == SelectSeq(all, from) \o SelectSeq(all, to)
  IN  [k \in 1..Len(ids) |-> R[ids[k]]]

\* get_relationships: the relationships naming memory_id as either endpoint,
\* in the map's (insertion) order.
get_relationships(R, memory_id) ==
  LET all == [i \in 1..MaxRels |-> i]
      hit(i) == /\ i \in DOMAIN R
                /\ (R[i].from_memory_id = memory_id \/ R[i].to_memory_id = memory_id)
      ids == SelectSeq(all, hit)
  IN  [k \in 1..Len(ids) |-> R[ids[k]]]

\* ------------------------------------------------------- record store
\* memory.model_dump(exclude={embedding, embedding_metadata, similarity,
\* relationships, content}) with the conversions create applies.
memory_dict(memory) ==
  [id |-> str_uuid(memory.id),
   type |-> memory.type,
   text |-> memory.text[1],
   source |-> memory.source,
   tags |-> join(memory.tags),
   confidence |-> memory.confidence,
   title |-> memory.title,
   created_at |-> isoformat(memory.created_at),
   updated_at |-> isoformat(memory.updated_at)]

\* collection.add: a record whose id is already present is left as it is.
collection_add(coll, id, entry) ==
  IF id \in DOMAIN coll THEN coll
  ELSE [i \in (DOMAIN coll) \cup {id} |-> IF i = id THEN entry ELSE coll[i]]

\* collection.delete removing the id and every id stored after it.
collection_delete_from(coll, id) == [i \in {j \in DOMAIN coll : j < id} |-> coll[i]]

\* collection.delete(ids=[id]): no error when the id is absent.
collection_delete(coll, id) == [i \in (DOMAIN coll) \ {id} |-> coll[i]]

\* The memory object create returns (memory.text set from the content).
create_memory(memory) == [memory EXCEPT !.text = Some(extract_text(memory.content))]

create_embeddings(text_content) ==
  IF use_dual_embeddings
  THEN generate_dual_embeddings(text_content)
  ELSE <<generate_embedding(text_content), generate_embedding(text_content)>>

\* create: the two collections after create(memory).
create_primary(P, memory) ==
  LET m == create_memory(memory)
      text_content == m.text[1]
  IN  collection_add(P, memory.id,
        [embedding |-> create_embeddings(text_content)[1],
         metadata |-> memory_dict(m),
         document |-> text_content])

create_secondary(S, memory) ==
  LET m == create_memory(memory)
      text_content == m.text[1]
  IN  collection_add(S, memory.id,
        [embedding |-> create_embeddings(text_content)[2],
         metadata |-> memory_dict(m),
         document |-> text_content])

\* Memory(**metadata) after the decoding get, search and list_all apply.
decode_memory(metadata) ==
  [id |-> UUID(metadata.id),
   type |-> metadata.type,
   content |-> content_from_text(metadata.text),
   text |-> Some(metadata.text),
   source |-> metadata.source,
   tags |-> decode_tags(metadata.tags),
   confidence |-> metadata.confidence,
   title |-> metadata.title,
   created_at |-> fromisoformat(metadata.created_at),
   updated_at |-> fromisoformat(metadata.updated_at),
   similarity |-> None,
   relationships |-> <<>>]

\* get: None, or the memory decoded from the primary collection with its
\* relationships.
get(P, R, memory_id) ==
  IF memory_id \notin DOMAIN P THEN None
  ELSE Some([decode_memory(P[memory_id].metadata)
               EXCEPT !.relationships = get_relationships(R, memory_id)])

\* The cascade with only the source endpoint compared.
delete_relationships_from_only(R, memory_id) ==
  [i \in {j \in DOMAIN R : R[j].from_memory_id # memory_id} |-> R[i]]

\* No cascade at all.
delete_relationships_none(R, memory_id) == R

\* delete: the relationship map after the cascade.
delete_relationships(R, memory_id) ==
  [i \in {j \in DOMAIN R : R[j].from_memory_id # memory_id
                           /\ R[j].to_memory_id # memory_id} |-> R[i]]

\* update: the field loop. An update is a record of field name -> Optional
\* value; only keys that are attributes of Memory with a non-None value apply.
MemoryFields == {"id", "type", "content", "text", "source", "tags", "confidence",
                 "title", "created_at", "updated_at", "similarity", "relationships"}

apply_updates(memory, updates) ==
  [k \in DOMAIN memory |->
     IF k \in DOMAIN updates /\ k \in MemoryFields /\ Len(updates[k]) > 0
     THEN updates[k][1] ELSE memory[k]]

\* The memory update passes to create (and create returns).
update_memory(P, R, memory_id, updates, t) ==
  [apply_updates(get(P, R, memory_id)[1], updates) EXCEPT !.updated_at = t]

\* delete always reports True: neither collection.delete nor the cascade
\* raises for an id that is not stored.
delete_result(P, memory_id) == TRUE

\* ------------------------------------------------------ list and stats
\* list_all: the first `limit` records of the primary collection from `offset`
\* on, each decoded from its metadata; relationships are not loaded. The
\* collection lists its records in id order.
RECURSIVE ids_in_order(_)
ids_in_order(S) ==
  IF S = {} THEN <<>>
  ELSE LET m == CHOOSE x \in S : \A y \in S : x <= y
       IN  <<m>> \o ids_in_order(S \ {m})

list_all(P, limit, offset) ==
  LET ids == ids_in_order(DOMAIN P)
      last == IF offset + limit < Len(ids) THEN offset + limit ELSE Len(ids)
  IN  [k \in 1..(last - offset) |-> decode_memory(P[ids[offset + k]].metadata)]

\* get_stats: the statistics over list_all(limit=10000) and the size of the
\* relationship map. avg_confidence is the exact quotient num/den, 0.0 being
\* 0/1; oldest_memory and newest_memory are None for an empty corpus.
StatsLimit == 10000

RECURSIVE sum(_)
sum(xs) == IF xs = <<>> THEN 0 ELSE xs[1] + sum(Tail(xs))

truthy(title) == Len(title) > 0 /\ title[1] # ""

\* get_stats with unique_tags counting every occurrence of a tag.
get_stats_tag_occurrences(P, R) ==
  LET all_memories == list_all(P, StatsLimit, 0)
      total == Len(all_memories)
      with_titles == Len(SelectSeq(all_memories, LAMBDA m : truthy(m.title)))
      confidences == [k \in 1..total |-> all_memories[k].confidence]
      dates == {all_memories[k].created_at : k \in 1..total}
  IN  [total_memories |-> total,
       memories_with_titles |-> with_titles,
       memories_without_titles |-> total - with_titles,
       total_relationships |-> Cardinality(DOMAIN R),
       unique_tags |-> sum([k \in 1..total |-> Len(all_memories[k].tags)]),
       unique_types |-> Cardinality({all_memories[k].type : k \in 1..total}),
       avg_confidence |-> IF total > 0 THEN [num |-> sum(confidences), den |-> total]
                          ELSE [num |-> 0, den |-> 1],
       oldest_memory |-> IF dates # {} THEN Some(CHOOSE d \in dates : \A e \in dates : d <= e)
                         ELSE None,
       newest_memory |-> IF dates # {} THEN Some(CHOOSE d \in dates : \A e \in dates : d >= e)
                         ELSE None]

get_stats(P, R) ==
  LET all_memories == list_all(P, StatsLimit, 0)
      total == Len(all_memories)
      with_titles == Len(SelectSeq(all_memories, LAMBDA m : truthy(m.title)))
      all_tags == UNION {{all_memories[k].tags[i] : i \in 1..Len(all_memories[k].tags)}
                           : k \in 1..total}
      all_types == {all_memories[k].type : k \in 1..total}
      confidences == [k \in 1..total |-> all_memories[k].confidence]
      dates == {all_memories[k].created_at : k \in 1..total}
  IN  [total_memories |-> total,
       memories_with_titles |-> with_titles,
       memories_without_titles |-> total - with_titles,
       total_relationships |-> Cardinality(DOMAIN R),
       unique_tags |-> Cardinality(all_tags),
       unique_types |-> Cardinality(all_types),
       avg_confidence |-> IF total > 0 THEN [num |-> sum(confidences), den |-> total]
                          ELSE [num |-> 0, den |-> 1],
       oldest_memory |-> IF dates # {} THEN Some(CHOOSE d \in dates : \A e \in dates : d <= e)
                         ELSE None,
       newest_memory |-> IF dates # {} THEN Some(CHOOSE d \in dates : \A e \in dates : d >= e)
                         ELSE None]

\* ------------------------------------------------------------- inputs
tagA == <<"a">>
tagB == <<"b">>
tagPadded == <<" ", "a">>          \* " a"
tagComma == <<"b", ",", "c">>      \* "b,c"

\* What a caller supplies to Memory(...): type, content, source, tags,
\* confidence, title.
Inputs ==
  << [type |-> "note", content |-> [base |-> "d1", wraps |-> 0], source |-> "user",
      tags |-> <<tagA>>, confidence |-> 100, title |-> None],
     [type |-> "fact", content |-> [base |-> "d2", wraps |-> 0], source |-> "agent",
      tags |-> <<tagA, tagB>>, confidence |-> 100, title |-> Some("T")],
     [type |-> "note", content |-> [base |-> "d1", wraps |-> 1], source |-> "user",
      tags |-> <<tagPadded, tagComma>>, confidence |-> 50, title |-> None] >>

InputPool == {Inputs[k] : k \in 1..Len(Inputs)}

\* The runs create id i from the pool's input number ((i - 1) mod Len(Inputs)) + 1.
CorpusInput(i) == Inputs[((i - 1) % Len(Inputs)) + 1]

\* Sparse field maps passed to update.
UpdatePool ==
  { [confidence |-> Some(50)],
    [tags |-> Some(<<tagB>>)],
    [content |-> Some([base |-> "d2", wraps |-> 0])],
    [title |-> Some(Some("T2")), bogus |-> Some(1)],
    [title |-> None, type |-> Some("fact")] }

\* The memories the runs relate to one another.
Endpoints == {i \in Ids : i <= 2}

RelationshipTypes == {"related-to", "example-of", "explains", "contradicts",
                      "depends-on", "supersedes"}
\* the type the runs draw
TypePool == {"related-to"}

\* Memory(...) as the callers construct it: default timestamps are utcnow().
Memory(id, inp, t) ==
  [id |-> id, type |-> inp.type, content |-> inp.content, text |-> None,
   source |-> inp.source, tags |-> inp.tags, confidence |-> inp.confidence,
   title |-> inp.title, created_at |-> t, updated_at |-> t,
   similarity |-> None, relationships |-> <<>>]

\* What an operation hands back: the memories, the boolean and the
\* relationships it returns, and the exception it raises (None: it returns).
Ret(memories, flag, rels) ==
  [memories |-> memories, flag |-> flag, rels |-> rels, error |-> None]

RetError(e) == [memories |-> None, flag |-> FALSE, rels |-> <<>>, error |-> Some(e)]

\* The result of get_stats.
RetStats(stats) ==
  [memories |-> None, flag |-> TRUE, rels |-> <<>>, error |-> None, stats |-> stats]

\* The threads of the process: the event loop that runs the request
\* handlers, and the pool thread that runs a background title task or the
\* scheduler job.
Threads == {"request", "background"}

\* A thread that runs no storage operation.
Idle == [pc |-> "idle", op |-> "none", id |-> 0, size |-> 0, cursor |-> 0, acc |-> <<>>]

\* ---------------------------------------------------------------- Init
NoCall == [op |-> "none", id |-> 0]

Init ==
  /\ memories_collection = <<>>
  /\ metadata_collection = <<>>
  /\ relationships = <<>>
  /\ next_rel = 1
  /\ now = 0
  /\ nops = 0
  /\ call = NoCall
  /\ ret = Ret(None, FALSE, <<>>)
  /\ threads = [t \in Threads |-> Idle]
  /\ storage_service = Some(1)
  /\ instances = 1

\* ------------------------------------------------------------- actions
Create(id, inp) ==
  /\ nops < MaxOps
  /\ LET memory == Memory(id, inp, now) IN
       /\ memories_collection' = create_primary(memories_collection, memory)
       /\ metadata_collection' = create_secondary(metadata_collection, memory)
       /\ call' = [op |-> "create", id |-> id, memory |-> memory]
       /\ ret' = Ret(Some(create_memory(memory)), TRUE, <<>>)
  /\ nops' = nops + 1
  /\ UNCHANGED <<relationships, next_rel, now>>
  /\ UNCHANGED process_vars

Get(id) ==
  /\ nops < MaxOps
  /\ call' = [op |-> "get", id |-> id]
  /\ ret' = Ret(get(memories_collection, relationships, id), TRUE, <<>>)
  /\ nops' = nops + 1
  /\ UNCHANGED <<memories_collection, metadata_collection, relationships, next_rel, now>>
  /\ UNCHANGED process_vars

GetStats ==
  /\ nops < MaxOps
  /\ call' = [op |-> "get_stats", id |-> 0]
  /\ ret' = RetStats(get_stats(memories_collection, relationships))
  /\ nops' = nops + 1
  /\ UNCHANGED <<memories_collection, metadata_collection, relationships, next_rel, now>>
  /\ UNCHANGED process_vars

\* update with the delete issued before the lookup's result is tested.
Update_delete_first(id, updates) ==
  /\ nops < MaxOps
  /\ call' = [op |-> "update", id |-> id, updates |-> updates]
  /\ nops' = nops + 1
  /\ IF get(memories_collection, relationships, id) = None
     THEN /\ ret' = Ret(None, FALSE, <<>>)
          /\ memories_collection' = collection_delete(memories_collection, id)
          /\ metadata_collection' = collection_delete(metadata_collection, id)
          /\ relationships' = delete_relationships(relationships, id)
     ELSE LET memory == update_memory(memories_collection, relationships, id, updates, now) IN
          /\ memory.content.wraps <= MaxWrap
          /\ memories_collection' =
               create_primary(collection_delete(memories_collection, id), memory)
          /\ metadata_collection' =
               create_secondary(collection_delete(metadata_collection, id), memory)
          /\ relationships' = delete_relationships(relationships, id)
          /\ ret' = Ret(Some(create_memory(memory)), TRUE, <<>>)
  /\ UNCHANGED <<next_rel, now>>
  /\ UNCHANGED process_vars

Update(id, updates) ==
  /\ nops < MaxOps
  /\ call' = [op |-> "update", id |-> id, updates |-> updates]
  /\ nops' = nops + 1
  /\ IF get(memories_collection, relationships, id) = None
     THEN /\ ret' = Ret(None, FALSE, <<>>)
          /\ UNCHANGED <<memories_collection, metadata_collection, relationships>>
     ELSE LET memory == update_memory(memories_collection, relationships, id, updates, now) IN
          /\ memory.content.wraps <= MaxWrap
          /\ memories_collection' =
               create_primary(collection_delete(memories_collection, id), memory)
          /\ metadata_collection' =
               create_secondary(collection_delete(metadata_collection, id), memory)
          /\ relationships' = delete_relationships(relationships, id)
          /\ ret' = Ret(Some(create_memory(memory)), TRUE, <<>>)
  /\ UNCHANGED <<next_rel, now>>
  /\ UNCHANGED process_vars

Delete(id) ==
  /\ nops < MaxOps
  /\ call' = [op |-> "delete", id |-> id]
  /\ nops' = nops + 1
  /\ memories_collection' = collection_delete(memories_collection, id)
  /\ metadata_collection' = collection_delete(metadata_collection, id)
  /\ relationships' = delete_relationships(relationships, id)
  /\ ret' = Ret(None, delete_result(memories_collection, id), <<>>)
  /\ UNCHANGED <<next_rel, now>>
  /\ UNCHANGED process_vars

\* create_relationship with a MemoryRelationship whose id is a fresh uuid4.
CreateRelationship(from, to, type) ==
  /\ nops < MaxOps
  /\ next_rel <= MaxRels
  /\ LET rel == [id |-> next_rel, from_memory_id |-> from, to_memory_id |-> to,
                 type |-> type, created_at |-> now] IN
       /\ relationships' =
            [i \in (DOMAIN relationships) \cup {next_rel} |->
               IF i = next_rel THEN rel ELSE relationships[i]]
       /\ call' = [op |-> "create_relationship", id |-> next_rel]
       /\ ret' = Ret(None, TRUE, <<rel>>)
  /\ next_rel' = next_rel + 1
  /\ nops' = nops + 1
  /\ UNCHANGED <<memories_collection, metadata_collection, now>>
  /\ UNCHANGED process_vars

\* delete_relationship emptying the map.
DeleteRelationship_clear(rid) ==
  /\ nops < MaxOps
  /\ call' = [op |-> "delete_relationship", id |-> rid]
  /\ nops' = nops + 1
  /\ relationships' = <<>>
  /\ ret' = Ret(None, rid \in DOMAIN relationships, <<>>)
  /\ UNCHANGED <<memories_collection, metadata_collection, next_rel, now>>
  /\ UNCHANGED process_vars

DeleteRelationship(rid) ==
  /\ nops < MaxOps
  /\ call' = [op |-> "delete_relationship", id |-> rid]
  /\ nops' = nops + 1
  /\ relationships' = [i \in (DOMAIN relationships) \ {rid} |-> relationships[i]]
  /\ ret' = Ret(None, rid \in DOMAIN relationships, <<>>)
  /\ UNCHANGED <<memories_collection, metadata_collection, next_rel, now>>
  /\ UNCHANGED process_vars

\* The wall clock advances between operations.
Tick ==
  /\ now < MaxTime
  /\ now' = now + 1
  /\ UNCHANGED <<memories_collection, metadata_collection, relationships,
                 next_rel, nops, call, ret>>
  /\ UNCHANGED process_vars

Next ==
  \/ \E id \in Ids : Create(id, CorpusInput(id))
  \/ \E id \in DOMAIN memories_collection : Create(id, CorpusInput(id + 1))
  \/ \E id \in Ids : Get(id)
  \/ GetStats
  \/ \E id \in Ids, updates \in UpdatePool : Update(id, updates)
  \/ \E id \in Ids : Delete(id)
  \/ \E from \in Endpoints, to \in Endpoints, type \in TypePool :
       CreateRelationship(from, to, type)
  \/ \E rid \in RelIds : DeleteRelationship(rid)
  \/ Tick

Spec == Init /\ [][Next]_vars

\* -------------------------------------------------------------- search
\* Distances a collection reports, in hundredths (similarity = 1 - distance).
Dists == {0, 35, 100}

\* Injective sequences of length n over S.
Arrangements(S, n) ==
  {q \in [1..n -> S] : \A i, j \in 1..n : i # j => q[i] # q[j]}

Min(a, b) == IF a < b THEN a ELSE b

\* collection.query(query_embeddings, n_results): the n_results nearest
\* stored entries, nearest first; dist gives the distance of each stored
\* embedding to the query embedding.
collection_query(coll, dist, n_results) ==
  LET n == Min(n_results, Cardinality(DOMAIN coll))
      d(i) == dist[coll[i].embedding]
  IN  { [k \in 1..n |-> [id |-> str_uuid(q[k]), distance |-> d(q[k]),
                         metadata |-> coll[q[k]].metadata]] :
        q \in { a \in Arrangements(DOMAIN coll, n) :
                  /\ \A k \in 1..(n-1) : d(a[k]) <= d(a[k+1])
                  /\ \A i \in DOMAIN coll :
                       (\A k \in 1..n : a[k] # i) => \A k \in 1..n : d(a[k]) <= d(i) } }

ResultIds(results) == {results[k].id : k \in 1..Len(results)}

\* combined_scores: the ids in dict insertion order (primary results, then
\* the ids only the secondary results hold) ...
combined_ids(primary_results, secondary_results) ==
  [k \in 1..Len(primary_results) |-> primary_results[k].id]
  \o SelectSeq([k \in 1..Len(secondary_results) |-> secondary_results[k].id],
               LAMBDA i : i \notin ResultIds(primary_results))

\* ... and the similarity of an id in one channel, 0.0 when it is not there.
channel_similarity(results, memory_id) ==
  IF memory_id \in ResultIds(results)
  THEN 100 - (CHOOSE r \in {results[k] : k \in 1..Len(results)} : r.id = memory_id).distance
  ELSE 0

\* next((m for i, m in enumerate(primary metadatas) if ids[i] == memory_id), None)
primary_metadata(primary_results, memory_id) ==
  IF memory_id \in ResultIds(primary_results)
  THEN Some((CHOOSE r \in {primary_results[k] : k \in 1..Len(primary_results)} :
               r.id = memory_id).metadata)
  ELSE None

\* any(tag in memory_tags for tag in tags)
tags_match(tags, memory_tags) ==
  \E i \in 1..Len(tags) : \E j \in 1..Len(memory_tags) : tags[i] = memory_tags[j]

weighted_similarity(primary_results, secondary_results, memory_id) ==
  channel_similarity(primary_results, memory_id) * embedding_weight_primary
  + channel_similarity(secondary_results, memory_id) * embedding_weight_secondary

\* The tag boost: `tags` is the Optional tag filter.
boost(metadata, tags) ==
  IF /\ metadata # None
     /\ tags # None
     /\ Len(tags[1]) > 0
     /\ tags_match(tags[1], decode_tags(metadata[1].tags))
  THEN tag_boost ELSE 0

\* One (memory_id, weighted_similarity, metadata) tuple of final_scores.
final_score(primary_results, secondary_results, tags, memory_id) ==
  LET metadata == primary_metadata(primary_results, memory_id) IN
  [id |-> memory_id,
   score |-> weighted_similarity(primary_results, secondary_results, memory_id)
             + boost(metadata, tags),
   metadata |-> metadata]

final_scores(primary_results, secondary_results, tags) ==
  LET ids == combined_ids(primary_results, secondary_results)
  IN  [k \in 1..Len(ids) |-> final_score(primary_results, secondary_results, tags, ids[k])]

\* The sort without reverse=True: ascending.
sort_scores_ascending(scores) ==
  LET n == Len(scores)
      rank(i) == 1 + Cardinality({j \in 1..n :
                        \/ scores[j].score < scores[i].score
                        \/ (scores[j].score = scores[i].score /\ j < i)})
  IN  [r \in 1..n |-> scores[CHOOSE i \in 1..n : rank(i) = r]]

\* list.sort(key=score, reverse=True): descending, stable.
sort_scores(scores) ==
  LET n == Len(scores)
      rank(i) == 1 + Cardinality({j \in 1..n :
                        \/ scores[j].score > scores[i].score
                        \/ (scores[j].score = scores[i].score /\ j < i)})
  IN  [r \in 1..n |-> scores[CHOOSE i \in 1..n : rank(i) = r]]

apply_threshold(scores, threshold) ==
  SelectSeq(scores, LAMBDA x : x.score >= threshold)

\* The threshold filter with its fallback.
filter_scores(scores, use_fallback) ==
  LET filtered == apply_threshold(scores, similarity_threshold)
  IN  IF filtered = <<>> /\ use_fallback
      THEN apply_threshold(scores, fallback_threshold)
      ELSE filtered

limit_scores(scores, limit) == SubSeq(scores, 1, Min(limit, Len(scores)))

\* The Memory objects appended in the opposite order.
to_memories_reversed(scores) ==
  LET kept == SelectSeq(scores, LAMBDA x : x.metadata # None)
      n == Len(kept)
  IN  [k \in 1..n |->
         [decode_memory(kept[n + 1 - k].metadata[1])
            EXCEPT !.similarity = Some(kept[n + 1 - k].score)]]

\* The Memory objects built from the surviving tuples that carry metadata.
to_memories(scores) ==
  LET kept == SelectSeq(scores, LAMBDA x : x.metadata # None)
  IN  [k \in 1..Len(kept) |->
         [decode_memory(kept[k].metadata[1]) EXCEPT !.similarity = Some(kept[k].score)]]

search(primary_results, secondary_results, limit, tags, use_fallback) ==
  to_memories(
    limit_scores(
      filter_scores(
        sort_scores(final_scores(primary_results, secondary_results, tags)),
        use_fallback),
      limit))

\* Tag filters the searches draw from (None: no filter).
TagFilters == {None, Some(<<tagB>>)}

\* One search over the corpus the run started with.
Search(limit, tags, use_fallback) ==
  /\ call.op = "none"
  /\ \E dp \in [{memories_collection[i].embedding : i \in DOMAIN memories_collection} -> Dists],
     ds \in [{metadata_collection[i].embedding : i \in DOMAIN metadata_collection} -> Dists] :
    \E primary_results \in collection_query(memories_collection, dp, limit * 2),
       secondary_results \in collection_query(metadata_collection, ds, limit * 2) :
      /\ call' = [op |-> "search", id |-> 0, limit |-> limit, tags |-> tags,
                  use_fallback |-> use_fallback,
                  primary_results |-> primary_results,
                  secondary_results |-> secondary_results]
      /\ ret' = Ret(search(primary_results, secondary_results, limit, tags, use_fallback),
                    TRUE, <<>>)
      /\ UNCHANGED <<memories_collection, metadata_collection, relationships,
                     next_rel, now, nops>>
  /\ UNCHANGED process_vars

\* A corpus: the store after create(Memory(i, ...)) for the ids of `present`.

RECURSIVE corpus_primary(_, _)
corpus_primary(present, n) ==
  IF n = 0 THEN <<>>
  ELSE IF n \notin present THEN corpus_primary(present, n - 1)
  ELSE create_primary(corpus_primary(present, n - 1), Memory(n, CorpusInput(n), 0))

RECURSIVE corpus_secondary(_, _)
corpus_secondary(present, n) ==
  IF n = 0 THEN <<>>
  ELSE IF n \notin present THEN corpus_secondary(present, n - 1)
  ELSE create_secondary(corpus_secondary(present, n - 1), Memory(n, CorpusInput(n), 0))

InitSearch ==
  \E present \in SUBSET Ids :
    /\ memories_collection = corpus_primary(present, NumIds)
    /\ metadata_collection = corpus_secondary(present, NumIds)
    /\ relationships = <<>>
    /\ next_rel = 1
    /\ now = 0
    /\ nops = 0
    /\ call = NoCall
    /\ ret = Ret(None, FALSE, <<>>)
    /\ threads = [t \in Threads |-> Idle]
    /\ storage_service = Some(1)
    /\ instances = 1

\* The parameters search() declares and the keywords handle_search passes.
search_parameters == {"query", "limit", "tags", "use_fallback"}

handle_search_keywords == {"query", "limit", "tags", "threshold", "use_fallback"}

MinSimilarities == {500, 700, 900}

FilterTags == {<<>>, <<tagA>>}

\* The tool-protocol search: handle_search under call_tool's exception handler.
\* A keyword the callee does not declare raises TypeError before its body runs.
HandleSearch(limit, min_similarity, filter_tags) ==
  /\ call.op = "none"
  /\ call' = [op |-> "handle_search", id |-> 0, limit |-> limit,
              min_similarity |-> min_similarity, filter_tags |-> filter_tags]
  /\ IF handle_search_keywords \subseteq search_parameters
     THEN \E dp \in [{memories_collection[i].embedding : i \in DOMAIN memories_collection} -> Dists],
             ds \in [{metadata_collection[i].embedding : i \in DOMAIN metadata_collection} -> Dists] :
            \E primary_results \in collection_query(memories_collection, dp, limit * 2),
               secondary_results \in collection_query(metadata_collection, ds, limit * 2) :
              ret' = Ret(search(primary_results, secondary_results, limit,
                                IF filter_tags # <<>> THEN Some(filter_tags) ELSE None, TRUE),
                         TRUE, <<>>)
     ELSE ret' = RetError("TypeError")
  /\ UNCHANGED <<memories_collection, metadata_collection, relationships,
                 next_rel, now, nops>>
  /\ UNCHANGED process_vars

NextSearch ==
  \/ \E limit \in 1..MaxLimit, tags \in TagFilters, use_fallback \in BOOLEAN :
       Search(limit, tags, use_fallback)
  \/ \E limit \in 1..MaxLimit, min_similarity \in MinSimilarities, filter_tags \in FilterTags :
       HandleSearch(limit, min_similarity, filter_tags)

SpecSearch == InitSearch /\ [][NextSearch]_vars

\* --------------------------------------------------------------- reads
\* list_all writing the stripped tags back into the stored metadata.
ListAll_decodes_in_place(limit, offset) ==
  /\ nops < MaxOps
  /\ call' = [op |-> "list_all", id |-> 0, limit |-> limit, offset |-> offset]
  /\ ret' = Ret(list_all(memories_collection, limit, offset), TRUE, <<>>)
  /\ memories_collection' =
       [i \in DOMAIN memories_collection |->
          [memories_collection[i] EXCEPT !.metadata.tags = join(decode_tags(@))]]
  /\ nops' = nops + 1
  /\ UNCHANGED <<metadata_collection, relationships, next_rel, now>>
  /\ UNCHANGED process_vars

ListAll(limit, offset) ==
  /\ nops < MaxOps
  /\ call' = [op |-> "list_all", id |-> 0, limit |-> limit, offset |-> offset]
  /\ ret' = Ret(list_all(memories_collection, limit, offset), TRUE, <<>>)
  /\ nops' = nops + 1
  /\ UNCHANGED <<memories_collection, metadata_collection, relationships, next_rel, now>>
  /\ UNCHANGED process_vars

GetRelationships(memory_id) ==
  /\ nops < MaxOps
  /\ call' = [op |-> "get_relationships", id |-> memory_id]
  /\ ret' = Ret(None, TRUE, get_relationships(relationships, memory_id))
  /\ nops' = nops + 1
  /\ UNCHANGED <<memories_collection, metadata_collection, relationships, next_rel, now>>
  /\ UNCHANGED process_vars

\* A corpus and, when `related`, one relationship between memories 1 and 2.
InitRead ==
  \E present \in SUBSET Ids, related \in BOOLEAN :
    /\ memories_collection = corpus_primary(present, NumIds)
    /\ metadata_collection = corpus_secondary(present, NumIds)
    /\ relationships =
         IF related
         THEN <<[id |-> 1, from_memory_id |-> 1, to_memory_id |-> 2,
                 type |-> "related-to", created_at |-> 0]>>
         ELSE <<>>
    /\ next_rel = IF related THEN 2 ELSE 1
    /\ now = 0
    /\ nops = 0
    /\ call = NoCall
    /\ ret = Ret(None, FALSE, <<>>)
    /\ threads = [t \in Threads |-> Idle]
    /\ storage_service = Some(1)
    /\ instances = 1

\* One read of the store the run started with.
NextRead ==
  \/ \E id \in Ids : call.op = "none" /\ Get(id)
  \/ \E limit \in 1..MaxLimit, offset \in 0..1 : call.op = "none" /\ ListAll(limit, offset)
  \/ call.op = "none" /\ GetStats
  \/ \E id \in Ids : call.op = "none" /\ GetRelationships(id)
  \/ \E tags \in TagFilters, use_fallback \in BOOLEAN : Search(1, tags, use_fallback)

SpecRead == InitRead /\ [][NextRead]_vars

\* --------------------------------------------------------- two queries
\* A corpus of at most two records.
InitPair ==
  \E present \in SUBSET Endpoints :
    /\ memories_collection = corpus_primary(present, NumIds)
    /\ metadata_collection = corpus_secondary(present, NumIds)
    /\ relationships = <<>>
    /\ next_rel = 1
    /\ now = 0
    /\ nops = 0
    /\ call = NoCall
    /\ ret = Ret(None, FALSE, <<>>)
    /\ threads = [t \in Threads |-> Idle]
    /\ storage_service = Some(1)
    /\ instances = 1

\* A second search over the same corpus with the same limit, tags and
\* use_fallback and another query text: the distances are those of the new
\* query. The first search and its result are kept for comparison.
SearchAgain ==
  /\ call.op = "search"
  /\ \E dp \in [{memories_collection[i].embedding : i \in DOMAIN memories_collection} -> Dists],
        ds \in [{metadata_collection[i].embedding : i \in DOMAIN metadata_collection} -> Dists] :
       \E primary_results \in collection_query(memories_collection, dp, call.limit * 2),
          secondary_results \in collection_query(metadata_collection, ds, call.limit * 2) :
         /\ call' = [op |-> "search_again", id |-> 0, limit |-> call.limit,
                     tags |-> call.tags, use_fallback |-> call.use_fallback,
                     primary_results |-> primary_results,
                     secondary_results |-> secondary_results,
                     first_call |-> call, first_ret |-> ret]
         /\ ret' = Ret(search(primary_results, secondary_results, call.limit, call.tags,
                              call.use_fallback), TRUE, <<>>)
  /\ UNCHANGED <<memories_collection, metadata_collection, relationships, next_rel, now, nops>>
  /\ UNCHANGED process_vars

NextPair ==
  \/ \E limit \in 1..MaxLimit, tags \in TagFilters, use_fallback \in BOOLEAN :
       Search(limit, tags, use_fallback)
  \/ SearchAgain

SpecPair == InitPair /\ [][NextPair]_vars

\* ------------------------------------------------------- failing calls
\* The collaborator call that raises while one operation runs: the primary
\* collection's get, either collection's delete or add, or the embedding
\* generator; "none" when every call returns.
Faults ==
  {"none", "get", "primary_delete", "secondary_delete", "embed", "primary_add",
   "secondary_add"}

IndexFaults == Faults \ {"none", "embed"}

Store(P, S, R) == [P |-> P, S |-> S, R |-> R]

\* get under `fault`: the except clause turns any exception into None.
get_faulty(store, memory_id, fault) ==
  IF fault = "get" THEN None ELSE get(store.P, store.R, memory_id)

\* delete under `fault`: the store as the raising call leaves it and False,
\* or the whole deletion and its result.
delete_faulty(store, memory_id, fault) ==
  IF fault = "primary_delete" THEN [store |-> store, result |-> FALSE]
  ELSE IF fault = "secondary_delete"
  THEN [store |-> [store EXCEPT !.P = collection_delete(store.P, memory_id)],
        result |-> FALSE]
  ELSE [store |-> Store(collection_delete(store.P, memory_id),
                        collection_delete(store.S, memory_id),
                        delete_relationships(store.R, memory_id)),
        result |-> delete_result(store.P, memory_id)]

\* create under `fault`: the store as the raising call leaves it; create has
\* no exception handler, so the exception reaches the caller.
create_faulty(store, memory, fault) ==
  IF fault \in {"embed", "primary_add"} THEN [store |-> store, raised |-> TRUE]
  ELSE IF fault = "secondary_add"
  THEN [store |-> [store EXCEPT !.P = create_primary(store.P, memory)],
        raised |-> TRUE]
  ELSE [store |-> [store EXCEPT !.P = create_primary(store.P, memory),
                                !.S = create_secondary(store.S, memory)],
        raised |-> FALSE]

CurrentStore == Store(memories_collection, metadata_collection, relationships)

SetStore(store) ==
  /\ memories_collection' = store.P
  /\ metadata_collection' = store.S
  /\ relationships' = store.R

FaultUpdates == {[confidence |-> Some(50)]}

CreateF(id, inp, fault) ==
  /\ nops < MaxOps
  /\ LET memory == Memory(id, inp, now)
         created == create_faulty(CurrentStore, memory, fault)
     IN  /\ SetStore(created.store)
         /\ call' = [op |-> "create", id |-> id, memory |-> memory, fault |-> fault]
         /\ ret' = IF created.raised THEN RetError("Exception")
                   ELSE Ret(Some(create_memory(memory)), TRUE, <<>>)
  /\ nops' = nops + 1
  /\ UNCHANGED <<next_rel, now>>
  /\ UNCHANGED process_vars

GetF(id, fault) ==
  /\ nops < MaxOps
  /\ call' = [op |-> "get", id |-> id, fault |-> fault]
  /\ ret' = Ret(get_faulty(CurrentStore, id, fault), TRUE, <<>>)
  /\ nops' = nops + 1
  /\ UNCHANGED <<memories_collection, metadata_collection, relationships, next_rel, now>>
  /\ UNCHANGED process_vars

UpdateF(id, updates, fault) ==
  /\ nops < MaxOps
  /\ call' = [op |-> "update", id |-> id, updates |-> updates, fault |-> fault]
  /\ nops' = nops + 1
  /\ IF get_faulty(CurrentStore, id, fault) = None
     THEN /\ ret' = Ret(None, FALSE, <<>>)
          /\ UNCHANGED <<memories_collection, metadata_collection, relationships>>
     ELSE LET memory == update_memory(memories_collection, relationships, id, updates, now)
              deleted == delete_faulty(CurrentStore, id, fault)
              created == create_faulty(deleted.store, memory, fault)
          IN  /\ memory.content.wraps <= MaxWrap
              /\ SetStore(created.store)
              /\ ret' = IF created.raised THEN RetError("Exception")
                        ELSE Ret(Some(create_memory(memory)), TRUE, <<>>)
  /\ UNCHANGED <<next_rel, now>>
  /\ UNCHANGED process_vars

DeleteF(id, fault) ==
  /\ nops < MaxOps
  /\ call' = [op |-> "delete", id |-> id, fault |-> fault]
  /\ nops' = nops + 1
  /\ LET deleted == delete_faulty(CurrentStore, id, fault) IN
       /\ SetStore(deleted.store)
       /\ ret' = Ret(None, deleted.result, <<>>)
  /\ UNCHANGED <<next_rel, now>>
  /\ UNCHANGED process_vars

NextFail ==
  \/ \E id \in Ids, fault \in {"none", "embed", "primary_add", "secondary_add"} :
       CreateF(id, CorpusInput(id), fault)
  \/ \E id \in Ids, fault \in {"none", "get"} : GetF(id, fault)
  \/ \E id \in Ids, updates \in FaultUpdates, fault \in Faults : UpdateF(id, updates, fault)
  \/ \E id \in Ids, fault \in {"none", "primary_delete", "secondary_delete"} :
       DeleteF(id, fault)
  \/ \E from \in Endpoints, to \in Endpoints, type \in TypePool :
       CreateRelationship(from, to, type)

SpecFail == Init /\ [][NextFail]_vars

\* ------------------------------------------------------------ HTTP API
\* Request bodies of POST /api/memories. Each carries a title, so the
\* handler schedules no background title task.
Confidences == {100, 150, -10}

RelData ==
  { <<>>,
    <<[from_memory_id |-> 1, to_memory_id |-> 2, type |-> "related-to"]>>,
    <<[from_memory_id |-> 1]>>,
    <<[from_memory_id |-> 1, to_memory_id |-> 2, type |-> "likes"]>> }

MemoryCreate(confidence, rel_list) ==
  [type |-> "fact", content |-> [base |-> "d2", wraps |-> 0], source |-> "agent",
   tags |-> <<tagA>>, confidence |-> confidence, title |-> Some("T"),
   relationships |-> rel_list]

\* RelationshipCreate(**rel_data): its three fields are required and the type
\* is one of the enumeration's values.
RelationshipCreate_fields == {"from_memory_id", "to_memory_id", "type"}

RelationshipCreate_valid(rel_data) ==
  /\ RelationshipCreate_fields \subseteq DOMAIN rel_data
  /\ rel_data.type \in RelationshipTypes

RelationshipCreate(rel_data) == [f \in RelationshipCreate_fields |-> rel_data[f]]

\* The handler's loop over the request's relationships: the graph it leaves
\* and the exception that ends it. create_relationship reads relationship.id.
RECURSIVE create_request_relationships(_, _)
create_request_relationships(R, rel_list) ==
  IF rel_list = <<>> THEN [R |-> R, error |-> None]
  ELSE IF ~RelationshipCreate_valid(Head(rel_list))
  THEN [R |-> R, error |-> Some("ValidationError")]
  ELSE LET relationship == RelationshipCreate(Head(rel_list)) IN
       IF "id" \notin DOMAIN relationship
       THEN [R |-> R, error |-> Some("AttributeError")]
       ELSE create_request_relationships(
              [i \in (DOMAIN R) \cup {relationship.id} |->
                 IF i = relationship.id THEN relationship ELSE R[i]],
              Tail(rel_list))

\* uuid4(): an id no stored record has.
uuid4 == CHOOSE i \in Ids \ DOMAIN memories_collection :
           \A j \in Ids \ DOMAIN memories_collection : i <= j

\* POST /api/memories: any exception becomes a 500 response.
ApiCreateMemory(memory_create) ==
  /\ nops < MaxOps
  /\ Ids \ DOMAIN memories_collection # {}
  /\ LET memory == Memory(uuid4, memory_create, now)
         related == create_request_relationships(relationships,
                                                 memory_create.relationships)
     IN  /\ memories_collection' = create_primary(memories_collection, memory)
         /\ metadata_collection' = create_secondary(metadata_collection, memory)
         /\ relationships' = related.R
         /\ call' = [op |-> "api_create_memory", id |-> memory.id,
                     memory_create |-> memory_create]
         /\ ret' = IF related.error # None THEN RetError("500")
                   ELSE Ret(Some(create_memory(memory)), TRUE, <<>>)
  /\ nops' = nops + 1
  /\ UNCHANGED <<next_rel, now>>
  /\ UNCHANGED process_vars

\* Bodies of PUT /api/memories/{id} after model_dump(exclude_unset=True).
MemoryUpdates == {[confidence |-> Some(150)], [confidence |-> Some(50)]}

\* PUT /api/memories/{id}: 404 when update returns None.
ApiUpdateMemory(id, updates) ==
  /\ nops < MaxOps
  /\ call' = [op |-> "api_update_memory", id |-> id, updates |-> updates]
  /\ nops' = nops + 1
  /\ IF get(memories_collection, relationships, id) = None
     THEN /\ ret' = RetError("404")
          /\ UNCHANGED <<memories_collection, metadata_collection, relationships>>
     ELSE LET memory == update_memory(memories_collection, relationships, id, updates, now) IN
          /\ memory.content.wraps <= MaxWrap
          /\ memories_collection' =
               create_primary(collection_delete(memories_collection, id), memory)
          /\ metadata_collection' =
               create_secondary(collection_delete(metadata_collection, id), memory)
          /\ relationships' = delete_relationships(relationships, id)
          /\ ret' = Ret(Some(create_memory(memory)), TRUE, <<>>)
  /\ UNCHANGED <<next_rel, now>>
  /\ UNCHANGED process_vars

\* GET /api/memories/{id}: 404 when get returns None.
ApiGetMemory(id) ==
  /\ nops < MaxOps
  /\ call' = [op |-> "api_get_memory", id |-> id]
  /\ ret' = IF get(memories_collection, relationships, id) = None THEN RetError("404")
            ELSE Ret(get(memories_collection, relationships, id), TRUE, <<>>)
  /\ nops' = nops + 1
  /\ UNCHANGED <<memories_collection, metadata_collection, relationships, next_rel, now>>
  /\ UNCHANGED process_vars

\* storage.create_relationship(relationship): the graph it leaves and the
\* exception it raises. The key is str(relationship.id), evaluated before the
\* store; an object without that attribute raises AttributeError.
create_relationship(R, relationship) ==
  IF "id" \notin DOMAIN relationship
  THEN [R |-> R, error |-> Some("AttributeError")]
  ELSE [R |-> [i \in (DOMAIN R) \cup {relationship.id} |->
                 IF i = relationship.id THEN relationship ELSE R[i]],
        error |-> None]

\* POST /api/relationships: 404 when an endpoint is not stored; an exception
\* of the handler becomes a 500 response.
ApiCreateRelationship(from, to, type) ==
  /\ nops < MaxOps
  /\ call' = [op |-> "api_create_relationship", id |-> 0, from_memory_id |-> from,
              to_memory_id |-> to, type |-> type]
  /\ nops' = nops + 1
  /\ IF \/ get(memories_collection, relationships, from) = None
        \/ get(memories_collection, relationships, to) = None
     THEN /\ ret' = RetError("404")
          /\ UNCHANGED relationships
     ELSE LET created == create_relationship(relationships,
                           RelationshipCreate([from_memory_id |-> from,
                                               to_memory_id |-> to, type |-> type]))
          IN  /\ relationships' = created.R
              /\ ret' = IF created.error # None THEN RetError("500")
                        ELSE Ret(None, TRUE, <<>>)
  /\ UNCHANGED <<memories_collection, metadata_collection, next_rel, now>>
  /\ UNCHANGED process_vars

\* The create_relationship tool under call_tool's exception handler: a
\* message when an endpoint is not stored, "Error: ..." for an exception.
HandleCreateRelationship(from, to, type) ==
  /\ nops < MaxOps
  /\ call' = [op |-> "handle_create_relationship", id |-> 0, from_memory_id |-> from,
              to_memory_id |-> to, type |-> type]
  /\ nops' = nops + 1
  /\ IF \/ get(memories_collection, relationships, from) = None
        \/ get(memories_collection, relationships, to) = None
     THEN /\ ret' = Ret(None, FALSE, <<>>)
          /\ UNCHANGED relationships
     ELSE LET created == create_relationship(relationships,
                           RelationshipCreate([from_memory_id |-> from,
                                               to_memory_id |-> to, type |-> type]))
          IN  /\ relationships' = created.R
              /\ ret' = IF created.error # None THEN RetError(created.error[1])
                        ELSE Ret(None, TRUE, <<>>)
  /\ UNCHANGED <<memories_collection, metadata_collection, next_rel, now>>
  /\ UNCHANGED process_vars

\* The store tool with relatedTo and relationshipType: the memory is stored,
\* a failure of the relationship is logged and the tool reports success.
HandleStore(related_id, type) ==
  /\ nops < MaxOps
  /\ Ids \ DOMAIN memories_collection # {}
  /\ LET memory == Memory(uuid4, [type |-> "note", content |-> [base |-> "d1", wraps |-> 1],
                                  source |-> "agent", tags |-> <<tagA>>,
                                  confidence |-> 100, title |-> Some("T")], now)
         created == create_relationship(relationships,
                      RelationshipCreate([from_memory_id |-> memory.id,
                                          to_memory_id |-> related_id, type |-> type]))
     IN  /\ memories_collection' = create_primary(memories_collection, memory)
         /\ metadata_collection' = create_secondary(metadata_collection, memory)
         /\ relationships' = created.R
         /\ call' = [op |-> "handle_store", id |-> memory.id, related_id |-> related_id]
         /\ ret' = Ret(Some(create_memory(memory)), TRUE, <<>>)
  /\ nops' = nops + 1
  /\ UNCHANGED <<next_rel, now>>
  /\ UNCHANGED process_vars

\* DELETE /api/memories/{id}: 404 when delete returns False.
ApiDeleteMemory(id) ==
  /\ nops < MaxOps
  /\ call' = [op |-> "api_delete_memory", id |-> id]
  /\ nops' = nops + 1
  /\ memories_collection' = collection_delete(memories_collection, id)
  /\ metadata_collection' = collection_delete(metadata_collection, id)
  /\ relationships' = delete_relationships(relationships, id)
  /\ ret' = IF delete_result(memories_collection, id) THEN Ret(None, TRUE, <<>>)
            ELSE RetError("404")
  /\ UNCHANGED <<next_rel, now>>
  /\ UNCHANGED process_vars

NextApi ==
  \/ \E confidence \in Confidences, rel_list \in RelData :
       ApiCreateMemory(MemoryCreate(confidence, rel_list))
  \/ \E id \in Ids, updates \in MemoryUpdates : ApiUpdateMemory(id, updates)
  \/ \E id \in Ids : ApiGetMemory(id)
  \/ \E from \in Endpoints, to \in Endpoints, type \in TypePool :
       ApiCreateRelationship(from, to, type)
  \/ \E from \in Endpoints, to \in Endpoints, type \in TypePool :
       HandleCreateRelationship(from, to, type)
  \/ \E related_id \in Endpoints, type \in TypePool : HandleStore(related_id, type)
  \/ \E id \in Ids : ApiDeleteMemory(id)
  \/ Tick

SpecApi == Init /\ [][NextApi]_vars

\* ------------------------------------------------------------- threads
\* StorageService methods run by two threads. No method takes a lock, so a
\* thread switch may fall between any two steps of a method. A dict store,
\* a dict delete and len() are one step each; an iteration over the dict is
\* one step per entry.

\* The next key a dict iterator yields after `cursor`: entries are kept in
\* insertion order, which is the order of the relationship ids.
next_key(R, cursor) ==
  IF \E i \in DOMAIN R : i > cursor
  THEN Some(CHOOSE i \in DOMAIN R : i > cursor /\ \A j \in DOMAIN R : j > cursor => i <= j)
  ELSE None

\* Where a thread is between the first and the last access to
\* self._relationships that one method makes.
InGraph == {"list_iter", "cascade_iter", "cascade_del", "delete_relationship_del"}

SetThread(t, local) == threads' = [threads EXCEPT ![t] = local]

Return(t, op, id, result) ==
  /\ SetThread(t, Idle)
  /\ call' = [op |-> op, id |-> id, thread |-> t]
  /\ ret' = result

\* get_relationships(memory_id) is called: the list comprehension is next.
StartGetRelationships(t, memory_id) ==
  /\ nops < MaxOps
  /\ threads[t].pc = "idle"
  /\ SetThread(t, [Idle EXCEPT !.pc = "list_begin", !.op = "get_relationships",
                                !.id = memory_id])
  /\ nops' = nops + 1
  /\ UNCHANGED <<memories_collection, metadata_collection, relationships, next_rel,
                 now, call, ret, storage_service, instances>>

\* delete(memory_id) is called: both collection deletes are done, the scan
\* of the relationships is next.
StartDelete(t, memory_id) ==
  /\ nops < MaxOps
  /\ threads[t].pc = "idle"
  /\ memories_collection' = collection_delete(memories_collection, memory_id)
  /\ metadata_collection' = collection_delete(metadata_collection, memory_id)
  /\ SetThread(t, [Idle EXCEPT !.pc = "cascade_begin", !.op = "delete", !.id = memory_id])
  /\ nops' = nops + 1
  /\ UNCHANGED <<relationships, next_rel, now, call, ret, storage_service, instances>>

\* The iteration over self._relationships starts: the iterator notes the
\* dict's size.
IterBegin(t) ==
  /\ threads[t].pc \in {"list_begin", "cascade_begin"}
  /\ SetThread(t, [threads[t] EXCEPT
                    !.pc = IF threads[t].pc = "list_begin" THEN "list_iter"
                           ELSE "cascade_iter",
                    !.size = Cardinality(DOMAIN relationships)])
  /\ UNCHANGED <<memories_collection, metadata_collection, relationships, next_rel,
                 now, nops, call, ret, storage_service, instances>>

\* One next() of the iterator: RuntimeError when the dict's size is no more
\* the size noted, else the next entry is tested, else the iteration ends.
\* delete catches the error and returns False; get_relationships lets it out.
IterNext(t) ==
  LET local == threads[t]
      key == next_key(relationships, local.cursor)
  IN  /\ local.pc \in {"list_iter", "cascade_iter"}
      /\ IF Cardinality(DOMAIN relationships) # local.size
         THEN IF local.pc = "list_iter"
              THEN Return(t, local.op, local.id, RetError("RuntimeError"))
              ELSE Return(t, local.op, local.id, Ret(None, FALSE, <<>>))
         ELSE IF key # None
         THEN /\ SetThread(t, [local EXCEPT
                    !.cursor = key[1],
                    !.acc = IF \/ relationships[key[1]].from_memory_id = local.id
                               \/ relationships[key[1]].to_memory_id = local.id
                            THEN Append(local.acc, key[1]) ELSE local.acc])
              /\ UNCHANGED <<call, ret>>
         ELSE IF local.pc = "list_iter"
         THEN Return(t, local.op, local.id,
                     Ret(None, TRUE, [k \in 1..Len(local.acc) |-> relationships[local.acc[k]]]))
         ELSE /\ SetThread(t, [local EXCEPT !.pc = "cascade_del"])
              /\ UNCHANGED <<call, ret>>
      /\ UNCHANGED <<memories_collection, metadata_collection, relationships, next_rel,
                     now, nops, storage_service, instances>>

\* One `del self._relationships[rel_id]` of the cascade, or its end.
\* KeyError when the entry is gone; delete catches it and returns False.
CascadeDel(t) ==
  LET local == threads[t] IN
  /\ local.pc = "cascade_del"
  /\ IF local.acc = <<>>
     THEN /\ Return(t, local.op, local.id, Ret(None, TRUE, <<>>))
          /\ UNCHANGED relationships
     ELSE IF Head(local.acc) \in DOMAIN relationships
     THEN /\ relationships' =
               [i \in (DOMAIN relationships) \ {Head(local.acc)} |-> relationships[i]]
          /\ SetThread(t, [local EXCEPT !.acc = Tail(local.acc)])
          /\ UNCHANGED <<call, ret>>
     ELSE /\ Return(t, local.op, local.id, Ret(None, FALSE, <<>>))
          /\ UNCHANGED relationships
  /\ UNCHANGED <<memories_collection, metadata_collection, next_rel, now, nops,
                 storage_service, instances>>

\* delete_relationship(relationship_id): the membership test.
StartDeleteRelationship(t, rid) ==
  /\ nops < MaxOps
  /\ threads[t].pc = "idle"
  /\ nops' = nops + 1
  /\ IF rid \in DOMAIN relationships
     THEN /\ SetThread(t, [Idle EXCEPT !.pc = "delete_relationship_del",
                                       !.op = "delete_relationship", !.id = rid])
          /\ UNCHANGED <<call, ret>>
     ELSE Return(t, "delete_relationship", rid, Ret(None, FALSE, <<>>))
  /\ UNCHANGED <<memories_collection, metadata_collection, relationships, next_rel,
                 now, storage_service, instances>>

\* delete_relationship: the del; KeyError when the entry is gone.
DeleteRelationshipDel(t) ==
  LET local == threads[t] IN
  /\ local.pc = "delete_relationship_del"
  /\ IF local.id \in DOMAIN relationships
     THEN /\ relationships' = [i \in (DOMAIN relationships) \ {local.id} |-> relationships[i]]
          /\ Return(t, local.op, local.id, Ret(None, TRUE, <<>>))
     ELSE /\ Return(t, local.op, local.id, RetError("KeyError"))
          /\ UNCHANGED relationships
  /\ UNCHANGED <<memories_collection, metadata_collection, next_rel, now, nops,
                 storage_service, instances>>

\* create_relationship on an idle thread: the dict store is one step.
ThreadCreateRelationship(t, from, to, type) ==
  /\ threads[t].pc = "idle"
  /\ CreateRelationship(from, to, type)

NextThreads ==
  \/ \E t \in Threads, id \in Endpoints : StartGetRelationships(t, id)
  \/ \E t \in Threads, id \in Endpoints : StartDelete(t, id)
  \/ \E t \in Threads : IterBegin(t)
  \/ \E t \in Threads : IterNext(t)
  \/ \E t \in Threads : CascadeDel(t)
  \/ \E t \in Threads, rid \in RelIds : StartDeleteRelationship(t, rid)
  \/ \E t \in Threads : DeleteRelationshipDel(t)
  \/ \E t \in Threads, from \in Endpoints, to \in Endpoints, type \in TypePool :
       ThreadCreateRelationship(t, from, to, type)

SpecThreads == Init /\ [][NextThreads]_vars

\* ----------------------------------------------------------- singleton
\* get_storage_service, statement by statement, on the request thread and the
\* scheduler's thread. An instance is named by its construction number.
InitSingleton ==
  /\ memories_collection = <<>>
  /\ metadata_collection = <<>>
  /\ relationships = <<>>
  /\ next_rel = 1
  /\ now = 0
  /\ nops = 0
  /\ call = NoCall
  /\ ret = Ret(None, FALSE, <<>>)
  /\ threads = [t \in Threads |-> Idle]
  /\ storage_service = None
  /\ instances = 0

\* if _storage_service is None
ServiceCheck(t) ==
  /\ nops < MaxOps
  /\ threads[t].pc = "idle"
  /\ SetThread(t, [Idle EXCEPT !.op = "get_storage_service",
                                !.pc = IF storage_service = None THEN "service_construct"
                                       ELSE "service_return"])
  /\ nops' = nops + 1
  /\ UNCHANGED <<memories_collection, metadata_collection, relationships, next_rel,
                 now, call, ret, storage_service, instances>>

\* StorageService(): a new instance with its own collections' clients and
\* its own empty relationship map.
ServiceConstruct(t) ==
  /\ threads[t].pc = "service_construct"
  /\ instances' = instances + 1
  /\ SetThread(t, [threads[t] EXCEPT !.pc = "service_assign", !.acc = <<instances + 1>>])
  /\ UNCHANGED <<memories_collection, metadata_collection, relationships, next_rel,
                 now, nops, call, ret, storage_service>>

\* _storage_service = <the new instance>
ServiceAssign(t) ==
  /\ threads[t].pc = "service_assign"
  /\ storage_service' = Some(threads[t].acc[1])
  /\ SetThread(t, [threads[t] EXCEPT !.pc = "service_return"])
  /\ UNCHANGED <<memories_collection, metadata_collection, relationships, next_rel,
                 now, nops, call, ret, instances>>

\* return _storage_service
ServiceReturn(t) ==
  /\ threads[t].pc = "service_return"
  /\ Return(t, "get_storage_service", 0,
            [memories |-> None, flag |-> TRUE, rels |-> <<>>, error |-> None,
             instance |-> storage_service[1]])
  /\ UNCHANGED <<memories_collection, metadata_collection, relationships, next_rel,
                 now, nops, storage_service, instances>>

NextSingleton ==
  \/ \E t \in Threads : ServiceCheck(t)
  \/ \E t \in Threads : ServiceConstruct(t)
  \/ \E t \in Threads : ServiceAssign(t)
  \/ \E t \in Threads : ServiceReturn(t)

SpecSingleton == InitSingleton /\ [][NextSingleton]_vars

\* ----------------------------------------------------- embedding service
\* Texts handed to the embedding service, as sequences of characters.
EmbedTexts == {<<>>, <<" ">>, <<" ", " ">>, <<"d">>, <<" ", "d">>}

\* The settings the service reads and whether each model can be loaded from
\* the models directory.
EmbedSettings ==
  [embedding_dimension : {2, 3},
   embedding_dimension_secondary : {2, 3},
   use_dual_embeddings : BOOLEAN,
   primary_available : BOOLEAN,
   secondary_available : BOOLEAN]

\* _load_models: TRUE when it raises FileNotFoundError.
load_models_raises(settings) ==
  \/ ~settings.primary_available
  \/ settings.use_dual_embeddings /\ ~settings.secondary_available

\* generate_embedding: the zero vector for blank text, else the primary
\* model's encoding.
EmbeddingService_generate_embedding(settings, text) ==
  IF load_models_raises(settings) THEN [raised |-> TRUE, value |-> None]
  ELSE IF text = <<>> \/ strip(text) = <<>>
  THEN [raised |-> FALSE, value |-> [i \in 1..settings.embedding_dimension |-> 0]]
  ELSE [raised |-> FALSE, value |-> [model |-> "L6", text |-> text]]

\* generate_dual_embeddings: (primary, secondary or None).
EmbeddingService_generate_dual_embeddings(settings, text) ==
  IF load_models_raises(settings) THEN [raised |-> TRUE, value |-> None]
  ELSE IF text = <<>> \/ strip(text) = <<>>
  THEN LET zero_vec == [i \in 1..settings.embedding_dimension |-> 0]
       IN  [raised |-> FALSE,
            value |-> <<zero_vec, IF settings.use_dual_embeddings THEN Some(zero_vec) ELSE None>>]
  ELSE [raised |-> FALSE,
        value |-> <<[model |-> "L6", text |-> text],
                    IF settings.use_dual_embeddings
                    THEN Some([model |-> "L12", text |-> text]) ELSE None>>]

GenerateEmbedding(settings, text) ==
  /\ call.op = "none"
  /\ call' = [op |-> "generate_embedding", id |-> 0, settings |-> settings, text |-> text]
  /\ LET result == EmbeddingService_generate_embedding(settings, text) IN
       ret' = IF result.raised THEN RetError("FileNotFoundError")
              ELSE [memories |-> None, flag |-> TRUE, rels |-> <<>>, error |-> None,
                    embedding |-> result.value]
  /\ UNCHANGED <<memories_collection, metadata_collection, relationships, next_rel, now, nops>>
  /\ UNCHANGED process_vars

GenerateDualEmbeddings(settings, text) ==
  /\ call.op = "none"
  /\ call' = [op |-> "generate_dual_embeddings", id |-> 0, settings |-> settings,
              text |-> text]
  /\ LET result == EmbeddingService_generate_dual_embeddings(settings, text) IN
       ret' = IF result.raised THEN RetError("FileNotFoundError")
              ELSE [memories |-> None, flag |-> TRUE, rels |-> <<>>, error |-> None,
                    embedding |-> result.value]
  /\ UNCHANGED <<memories_collection, metadata_collection, relationships, next_rel, now, nops>>
  /\ UNCHANGED process_vars

NextEmbed ==
  \/ \E settings \in EmbedSettings, text \in EmbedTexts : GenerateEmbedding(settings, text)
  \/ \E settings \in EmbedSettings, text \in EmbedTexts :
       GenerateDualEmbeddings(settings, text)

SpecEmbed == Init /\ [][NextEmbed]_vars

\* ------------------------------------------------- concurrent updates
\* update, statement by statement, on the request thread and on the pool
\* thread that runs the background title task; get and delete are single
\* steps of the request thread. The runs start from a corpus of at most two
\* records (InitPair): record 1 has no title.
GeneratedTitle == [title |-> Some(Some("G"))]

RequestUpdates == {[tags |-> Some(<<tagB>>)], [title |-> Some(Some("T2"))]}

\* generate_title_for_memory up to the title's generation: the task ends
\* when the record is missing or titled.
TitleRead(t, id) ==
  /\ nops < MaxOps
  /\ threads[t].pc = "idle"
  /\ nops' = nops + 1
  /\ LET memory == get(memories_collection, relationships, id) IN
       IF memory = None \/ truthy(memory[1].title)
       THEN Return(t, "generate_title", id, Ret(None, FALSE, <<>>))
       ELSE /\ SetThread(t, [Idle EXCEPT !.pc = "title_update", !.op = "generate_title",
                                         !.id = id])
            /\ UNCHANGED <<call, ret>>
  /\ UNCHANGED <<memories_collection, metadata_collection, relationships, next_rel,
                 now, storage_service, instances>>

\* update: memory = self.get(memory_id), None returned when it is missing,
\* else the field loop and updated_at. The request thread calls it for
\* PUT /api/memories/{id}, a title task with the generated title.
UpdateGet(t, id, updates) ==
  /\ \/ /\ t = "request"
        /\ threads[t].pc = "idle"
        /\ nops < MaxOps
        /\ nops' = nops + 1
     \/ /\ threads[t].pc = "title_update"
        /\ threads[t].id = id
        /\ updates = GeneratedTitle
        /\ nops' = nops
  /\ IF get(memories_collection, relationships, id) = None
     THEN /\ SetThread(t, Idle)
          /\ call' = [op |-> "update", id |-> id, thread |-> t, updates |-> updates,
                      in_flight |-> {}]
          /\ ret' = Ret(None, FALSE, <<>>)
     ELSE LET memory == update_memory(memories_collection, relationships, id, updates, now) IN
          /\ memory.content.wraps <= MaxWrap
          /\ SetThread(t, [Idle EXCEPT !.pc = "update_delete", !.op = "update", !.id = id,
                                       !.acc = <<memory, updates>>])
          /\ UNCHANGED <<call, ret>>
  /\ UNCHANGED <<memories_collection, metadata_collection, relationships, next_rel,
                 now, storage_service, instances>>

\* update: self.delete(memory_id)
UpdateDelete(t) ==
  LET local == threads[t] IN
  /\ local.pc = "update_delete"
  /\ memories_collection' = collection_delete(memories_collection, local.id)
  /\ metadata_collection' = collection_delete(metadata_collection, local.id)
  /\ relationships' = delete_relationships(relationships, local.id)
  /\ SetThread(t, [local EXCEPT !.pc = "update_create"])
  /\ UNCHANGED <<next_rel, now, nops, call, ret, storage_service, instances>>

\* update: return self.create(memory). The call records which other threads
\* are inside an update at the return.
UpdateCreate(t) ==
  LET local == threads[t]
      memory == local.acc[1]
  IN
  /\ local.pc = "update_create"
  /\ memories_collection' = create_primary(memories_collection, memory)
  /\ metadata_collection' = create_secondary(metadata_collection, memory)
  /\ SetThread(t, Idle)
  /\ call' = [op |-> "update", id |-> local.id, thread |-> t, updates |-> local.acc[2],
              in_flight |-> {u \in Threads \ {t} :
                               threads[u].pc \in {"update_delete", "update_create"}}]
  /\ ret' = Ret(Some(create_memory(memory)), TRUE, <<>>)
  /\ UNCHANGED <<relationships, next_rel, now, nops, storage_service, instances>>

NextRace ==
  \/ \E id \in Endpoints : TitleRead("background", id)
  \/ \E id \in Endpoints : UpdateGet("background", id, GeneratedTitle)
  \/ \E id \in Endpoints, updates \in RequestUpdates : UpdateGet("request", id, updates)
  \/ \E t \in Threads : UpdateDelete(t)
  \/ \E t \in Threads : UpdateCreate(t)
  \/ \E id \in Endpoints : threads["request"].pc = "idle" /\ Get(id)
  \/ \E id \in Endpoints : threads["request"].pc = "idle" /\ Delete(id)

SpecRace == InitPair /\ [][NextRace]_vars

\* ------------------------------------------------------------------ UI
\* The All Memories page's vector search: storage.search(query, limit=20)
\* with the default tags and use_fallback, then the page's own filter on the
\* minimum similarity the user chose (thousandths).
UiSearchLimit == 20

UiMinSimilarities == {0, 300, 500, 700}

UiVectorSearch(min_similarity) ==
  /\ call.op = "none"
  /\ \E dp \in [{memories_collection[i].embedding : i \in DOMAIN memories_collection} -> Dists],
        ds \in [{metadata_collection[i].embedding : i \in DOMAIN metadata_collection} -> Dists] :
       \E primary_results \in collection_query(memories_collection, dp, UiSearchLimit * 2),
          secondary_results \in collection_query(metadata_collection, ds, UiSearchLimit * 2) :
         LET results == search(primary_results, secondary_results, UiSearchLimit, None, TRUE)
             filtered_results ==
               SelectSeq(results,
                         LAMBDA m : /\ m.similarity # None
                                    /\ m.similarity[1] # 0
                                    /\ 1000 - m.similarity[1] >= min_similarity)
         IN  /\ call' = [op |-> "ui_vector_search", id |-> 0,
                         min_similarity |-> min_similarity, results |-> results]
             /\ ret' = Ret(filtered_results, TRUE, <<>>)
  /\ UNCHANGED <<memories_collection, metadata_collection, relationships, next_rel, now, nops>>
  /\ UNCHANGED process_vars

NextUi == \E min_similarity \in UiMinSimilarities : UiVectorSearch(min_similarity)

SpecUi == InitPair /\ [][NextUi]_vars

\* ------------------------------------------------------------- claims
Touches(rel, memory_id) ==
  rel.from_memory_id = memory_id \/ rel.to_memory_id = memory_id

\* The step just taken was a successful update.
UpdateStep ==
  /\ nops' = nops + 1
  /\ call'.op = "update"
  /\ ret'.memories # None

\* C1: after create(r), get(r.id) returns a record whose type, source,
\* content, tags, confidence and title equal those of r and whose text is
\* the rendering of r.content.
C1_RoundTrip ==
  call.op = "create" =>
    LET g == get(memories_collection, relationships, call.id) IN
      /\ g # None
      /\ g[1].type = call.memory.type
      /\ g[1].source = call.memory.source
      /\ g[1].content = call.memory.content
      /\ g[1].tags = call.memory.tags
      /\ g[1].confidence = call.memory.confidence
      /\ g[1].title = call.memory.title
      /\ g[1].text = Some(extract_text(call.memory.content))

\* C2: after delete(B) the relationship graph holds no relationship whose
\* source or target is B.
C2_CascadeDelete ==
  call.op = "delete" =>
    \A i \in DOMAIN relationships : ~Touches(relationships[i], call.id)

\* Two relationships were created and the delete that followed removed both.
C2_Witness ==
  /\ call.op = "delete"
  /\ nops = 3
  /\ next_rel = 3
  /\ relationships = <<>>

\* C3: update(id, {confidence: c}) on a record that has relationships
\* leaves get_relationships(id) as it was.
C3_UpdatePreservesRelationships ==
  [][(UpdateStep /\ DOMAIN call'.updates = {"confidence"})
       => get_relationships(relationships', call'.id)
            = get_relationships(relationships, call'.id)]_vars

\* C4: every successful update deletes the stored record from both channels
\* and cascade-deletes its relationships before recreating it: no
\* relationship that touched id before the update is in the graph after it,
\* and both channels hold the entry created from the updated memory.
C4_UpdateDeletesAndCascades ==
  [][UpdateStep =>
       /\ \A i \in DOMAIN relationships :
            Touches(relationships[i], call'.id) => i \notin DOMAIN relationships'
       /\ \A i \in DOMAIN relationships' : ~Touches(relationships'[i], call'.id)
       /\ memories_collection'[call'.id].metadata = memory_dict(ret'.memories[1])
       /\ metadata_collection'[call'.id].metadata = memory_dict(ret'.memories[1])]_vars

\* An update of the tags only has removed the one relationship of its record.
C4_Witness ==
  /\ call.op = "update"
  /\ ret.memories # None
  /\ DOMAIN call.updates = {"tags"}
  /\ nops = 3
  /\ next_rel = 2
  /\ relationships = <<>>

\* C5: an update whose fields do not contain content leaves the record's
\* text, and both stored embedding vectors, as they were.
C5_UpdateKeepsText ==
  [][(UpdateStep /\ "content" \notin DOMAIN call'.updates) =>
       /\ get(memories_collection', relationships', call'.id)[1].text
            = get(memories_collection, relationships, call'.id)[1].text
       /\ memories_collection'[call'.id].embedding
            = memories_collection[call'.id].embedding
       /\ metadata_collection'[call'.id].embedding
            = metadata_collection[call'.id].embedding]_vars

\* C6: delete(id) of an id that is not stored returns False ("not found")
\* and changes neither collection nor the relationship graph.
C6_DeleteReportsPresence ==
  [][(nops' = nops + 1 /\ call'.op = "delete"
        /\ call'.id \notin DOMAIN memories_collection) =>
       /\ ret'.flag = FALSE
       /\ UNCHANGED <<memories_collection, metadata_collection, relationships>>]_vars

\* C7: every stored record's text is the rendering of its current content,
\* and the vector each channel stores under its id is the embedding of that
\* text.
C7_TextAndVectorsCurrent ==
  \A id \in DOMAIN memories_collection :
    LET m == get(memories_collection, relationships, id)[1] IN
      /\ m.text = Some(extract_text(m.content))
      /\ memories_collection[id].embedding = create_embeddings(m.text[1])[1]
      /\ id \in DOMAIN metadata_collection
      /\ metadata_collection[id].embedding = create_embeddings(m.text[1])[2]

\* C8: update applies exactly the present, non-null fields: every other
\* field keeps its previous value, and every present non-null field has the
\* supplied value in the record returned and in the record get then returns.
\* (text is derived from content: it is held to its previous value when the
\* update supplies no content.)
UpdatableFields == {"id", "type", "content", "source", "tags",
                    "confidence", "title", "created_at"}

C8_UpdateAppliesSparseFields ==
  [][UpdateStep =>
       LET before == get(memories_collection, relationships, call'.id)[1]
           after == get(memories_collection', relationships', call'.id)[1]
           returned == ret'.memories[1]
           updates == call'.updates
           supplied(k) == k \in DOMAIN updates /\ Len(updates[k]) > 0
       IN  /\ \A k \in UpdatableFields :
                IF supplied(k)
                THEN returned[k] = updates[k][1] /\ after[k] = updates[k][1]
                ELSE returned[k] = before[k] /\ after[k] = before[k]
           /\ ~supplied("content") =>
                returned.text = before.text /\ after.text = before.text]_vars

\* C9: when no combined score reaches the primary threshold and at least one
\* reaches the fallback threshold, search with fallback returns a non-empty
\* result and search without fallback returns an empty one.
SearchScores ==
  final_scores(call.primary_results, call.secondary_results, call.tags)

C9_FallbackBand ==
  /\ call.op = "search"
  /\ \A k \in 1..Len(SearchScores) : SearchScores[k].score < similarity_threshold
  /\ \E k \in 1..Len(SearchScores) : SearchScores[k].score >= fallback_threshold

C9_ThresholdFallback ==
  C9_FallbackBand =>
    IF call.use_fallback THEN ret.memories # <<>> ELSE ret.memories = <<>>

\* C10: with a tag filter, of two candidates with identical weighted base
\* similarity of which exactly one has a tag in the filter, the tag-matching
\* one is ranked strictly higher, whichever channels found them.
StoredTags(sid) == decode_tags(memories_collection[UUID(sid)].metadata.tags)

ResultPosition(memory_id) ==
  IF \E k \in 1..Len(ret.memories) : ret.memories[k].id = memory_id
  THEN CHOOSE k \in 1..Len(ret.memories) : ret.memories[k].id = memory_id
  ELSE 0

C10_TagBoostRanks ==
  (call.op = "search" /\ call.tags # None) =>
    LET ids == combined_ids(call.primary_results, call.secondary_results)
        ranked == sort_scores(SearchScores)
        rank(sid) == CHOOSE k \in 1..Len(ranked) : ranked[k].id = sid
        base(sid) == weighted_similarity(call.primary_results,
                                         call.secondary_results, sid)
    IN  \A x, y \in {ids[k] : k \in 1..Len(ids)} :
          ( /\ base(x) = base(y)
            /\ tags_match(call.tags[1], StoredTags(x))
            /\ ~tags_match(call.tags[1], StoredTags(y)) )
          => /\ rank(x) < rank(y)
             /\ ResultPosition(UUID(y)) # 0 =>
                  /\ ResultPosition(UUID(x)) # 0
                  /\ ResultPosition(UUID(x)) < ResultPosition(UUID(y))

\* The threshold search finally applied: the fallback one when nothing
\* reached the primary one and the fallback is enabled.
AppliedThreshold ==
  IF /\ call.use_fallback
     /\ \A k \in 1..Len(SearchScores) : SearchScores[k].score < similarity_threshold
  THEN fallback_threshold ELSE similarity_threshold

\* The scored candidates that pass the applied threshold, best first.
Passing == apply_threshold(sort_scores(SearchScores), AppliedThreshold)

\* C11: every id of either channel's results is scored; every id whose score
\* passes the applied threshold and ranks within the first `limit` is
\* returned, decoded, with that score; the number returned is
\* min(limit, number of ids passing).
C11_AllPassingReturned ==
  call.op = "search" =>
    /\ {SearchScores[k].id : k \in 1..Len(SearchScores)}
         = ResultIds(call.primary_results) \cup ResultIds(call.secondary_results)
    /\ Len(ret.memories) = Min(call.limit, Len(Passing))
    /\ \A k \in 1..Min(call.limit, Len(Passing)) :
         /\ ResultPosition(UUID(Passing[k].id)) # 0
         /\ ret.memories[ResultPosition(UUID(Passing[k].id))].similarity
              = Some(Passing[k].score)

\* C13: search returns at most `limit` records, in non-increasing score
\* order, each carrying its combined score as similarity, none below the
\* threshold finally applied.
C13_ResultBounds ==
  call.op = "search" =>
    LET scores == SearchScores
        threshold ==
          IF /\ call.use_fallback
             /\ \A j \in 1..Len(scores) : scores[j].score < similarity_threshold
          THEN fallback_threshold ELSE similarity_threshold
    IN  /\ Len(ret.memories) <= call.limit
        /\ \A k \in 1..Len(ret.memories) :
             /\ \E j \in 1..Len(scores) :
                  /\ scores[j].id = str_uuid(ret.memories[k].id)
                  /\ ret.memories[k].similarity = Some(scores[j].score)
             /\ ret.memories[k].similarity[1] >= threshold
        /\ \A k \in 1..(Len(ret.memories) - 1) :
             ret.memories[k].similarity[1] >= ret.memories[k+1].similarity[1]

\* Two records of different scores returned, the limit cutting off a third
\* that passed as well.
C13_Witness ==
  /\ call.op = "search"
  /\ call.limit = 2
  /\ Len(ret.memories) = 2
  /\ Len(Passing) > 2
  /\ ret.memories[1].similarity[1] > ret.memories[2].similarity[1]

\* C14: the combined score of an id is w_primary * (1 - primary distance)
\* + w_secondary * (1 - secondary distance), 0.0 for a channel whose top-k
\* lacks the id, plus the tag boost exactly once when a tag filter is
\* supplied and the record's tags intersect it.
DistanceIn(results, sid) ==
  (CHOOSE r \in {results[k] : k \in 1..Len(results)} : r.id = sid).distance

C14_CombinedScore ==
  call.op = "search" =>
    \A k \in 1..Len(SearchScores) :
      LET sid == SearchScores[k].id
          p == IF sid \in ResultIds(call.primary_results)
               THEN 100 - DistanceIn(call.primary_results, sid) ELSE 0
          q == IF sid \in ResultIds(call.secondary_results)
               THEN 100 - DistanceIn(call.secondary_results, sid) ELSE 0
          bonus == IF call.tags # None /\ tags_match(call.tags[1], StoredTags(sid))
                   THEN tag_boost ELSE 0
      IN  SearchScores[k].score
            = p * embedding_weight_primary + q * embedding_weight_secondary + bonus

\* C12: the tool-protocol search, which passes minSimilarity as the threshold,
\* returns records rather than an error, and every record it returns scores at
\* least the caller's threshold or, after fallback, the fallback threshold.
C12_CallerThreshold ==
  call.op = "handle_search" =>
    /\ ret.error = None
    /\ \A k \in 1..Len(ret.memories) :
         ret.memories[k].similarity[1] >= Min(call.min_similarity, fallback_threshold)

\* C15: get_relationships(X) holds exactly the relationships of the graph
\* whose source or target is X, each once (a self-loop once), and get(X)
\* returns the record with exactly that list as its relationships.
C15_ListFor ==
  \A X \in Ids :
    LET listed == get_relationships(relationships, X)
        touching == {i \in DOMAIN relationships : Touches(relationships[i], X)}
    IN  /\ {listed[k] : k \in 1..Len(listed)} = {relationships[i] : i \in touching}
        /\ Len(listed) = Cardinality(touching)
        /\ get(memories_collection, relationships, X) # None =>
             get(memories_collection, relationships, X)[1].relationships = listed
        /\ (call.op = "get" /\ call.id = X /\ ret.memories # None) =>
             ret.memories[1].relationships = listed

\* get(X) has returned a record whose relationships hold a self-loop X->X.
C15_Witness ==
  /\ call.op = "get"
  /\ ret.memories # None
  /\ \E k \in 1..Len(ret.memories[1].relationships) :
       /\ ret.memories[1].relationships[k].from_memory_id = call.id
       /\ ret.memories[1].relationships[k].to_memory_id = call.id

\* C16: get and update of an id that is not stored return None as a value,
\* never an exception, and update then deletes nothing, creates nothing and
\* leaves the relationships as they were.
C16_NotFoundIsValue ==
  [][(/\ nops' = nops + 1
      /\ call'.op \in {"get", "update"}
      /\ call'.id \notin DOMAIN memories_collection)
     => (/\ ret'.memories = None
         /\ ret'.error = None
         /\ UNCHANGED <<memories_collection, metadata_collection, relationships>>)]_vars

\* update of an absent id has returned None while a relationship naming
\* that id is in the graph.
C16_Witness ==
  /\ call.op = "update"
  /\ call.id \notin DOMAIN memories_collection
  /\ ret.memories = None
  /\ ret.error = None
  /\ \E i \in DOMAIN relationships : Touches(relationships[i], call.id)

\* The operation of the step ran into the call that raises.
FaultReached ==
  /\ call'.fault # "none"
  /\ (call'.op = "update" /\ call'.fault # "get") =>
       call'.id \in DOMAIN memories_collection

\* C17: an update or delete that fails after it has begun changing the store
\* leaves the store so that get(id) returns None.
C17_FailureDetectable ==
  [][(/\ nops' = nops + 1
      /\ call'.op \in {"update", "delete"}
      /\ FaultReached
      /\ (ret'.error # None \/ (call'.op = "delete" /\ ~ret'.flag))
      /\ CurrentStore' # CurrentStore)
     => get(memories_collection', relationships', call'.id) = None]_vars

\* C18: a get, update or delete during which a call on the index store
\* raises reports a failure, never the None or False it reports for an
\* absent record.
C18_UnavailableSurfaces ==
  [][(/\ nops' = nops + 1
      /\ call'.op \in {"get", "update", "delete"}
      /\ call'.fault \in IndexFaults
      /\ FaultReached)
     => ret'.error # None]_vars

\* C19: no stored record has a confidence outside [0, 1]: a create or update
\* carrying such a confidence is rejected before anything is stored.
C19_ConfidenceInRange ==
  /\ \A i \in DOMAIN memories_collection :
       memories_collection[i].metadata.confidence \in 0..100
  /\ \A i \in DOMAIN metadata_collection :
       metadata_collection[i].metadata.confidence \in 0..100

\* C20: a create-memory request that returns an error has added no record
\* to either collection and no relationship to the graph.
C20_RejectedCreateStoresNothing ==
  [][(/\ nops' = nops + 1
      /\ call'.op = "api_create_memory"
      /\ ret'.error # None)
     => UNCHANGED <<memories_collection, metadata_collection, relationships>>]_vars

\* C21: no two threads are ever inside an access to the relationship graph
\* at the same time, and the graph does not change while a cascade scan of
\* delete is under way.
C21_GraphAccessLocked ==
  [][/\ Cardinality({t \in Threads : threads'[t].pc \in InGraph}) <= 1
     /\ (\E t \in Threads : threads[t].pc = "cascade_iter" /\ threads'[t].pc = "cascade_iter")
          => relationships' = relationships]_vars

\* C23: a create-relationship request (HTTP or tool) whose two endpoints are
\* stored succeeds: it adds exactly one relationship under an id the graph
\* did not hold, leaves the others as they were, and list-for of its source
\* and of its target return it.
C23_CreateRelationshipSucceeds ==
  [][(/\ nops' = nops + 1
      /\ call'.op \in {"api_create_relationship", "handle_create_relationship"}
      /\ call'.from_memory_id \in DOMAIN memories_collection
      /\ call'.to_memory_id \in DOMAIN memories_collection)
     => /\ ret'.error = None
        /\ \E rid \in (DOMAIN relationships') \ (DOMAIN relationships) :
             /\ DOMAIN relationships' = (DOMAIN relationships) \cup {rid}
             /\ relationships'[rid].from_memory_id = call'.from_memory_id
             /\ relationships'[rid].to_memory_id = call'.to_memory_id
             /\ \A i \in DOMAIN relationships : relationships'[i] = relationships[i]
             /\ \A X \in {call'.from_memory_id, call'.to_memory_id} :
                  \E k \in 1..Len(get_relationships(relationships', X)) :
                    get_relationships(relationships', X)[k] = relationships'[rid]]_vars

\* C24: create of a memory whose id is already stored overwrites the stored
\* record in both channels: afterwards get(id) returns the new memory's
\* fields and text, and each channel holds the new entry for the id.
C24_LastWriteWins ==
  [][(/\ nops' = nops + 1
      /\ call'.op = "create"
      /\ call'.id \in DOMAIN memories_collection)
     => LET r2 == call'.memory
            got == get(memories_collection', relationships', call'.id)
        IN  /\ got # None
            /\ got[1].type = r2.type
            /\ got[1].source = r2.source
            /\ got[1].confidence = r2.confidence
            /\ got[1].title = r2.title
            /\ got[1].created_at = r2.created_at
            /\ got[1].updated_at = r2.updated_at
            /\ got[1].text = Some(extract_text(r2.content))
            /\ memories_collection'[call'.id].document = extract_text(r2.content)
            /\ metadata_collection'[call'.id].document = extract_text(r2.content)]_vars

\* C25: get_stats returns total = the number of stored records (up to the cap),
\* with-title + without-title = total, unique tag and type counts equal to the
\* sizes of the sets of tags and types over the stored records, mean
\* confidence 0.0 for an empty corpus, and a relationship count equal to the
\* size of the relationship map.
C25_StatsCounts ==
  call.op = "get_stats" =>
    LET stats == ret.stats
        stored == DOMAIN memories_collection
        tags_of(i) == LET tags == get(memories_collection, relationships, i)[1].tags
                      IN  {tags[k] : k \in 1..Len(tags)}
    IN  /\ stats.total_memories =
             (IF Cardinality(stored) < StatsLimit THEN Cardinality(stored) ELSE StatsLimit)
        /\ stats.memories_with_titles + stats.memories_without_titles = stats.total_memories
        /\ stats.memories_with_titles =
             Cardinality({i \in stored : truthy(memories_collection[i].metadata.title)})
        /\ stats.unique_tags = Cardinality(UNION {tags_of(i) : i \in stored})
        /\ stats.unique_types =
             Cardinality({memories_collection[i].metadata.type : i \in stored})
        /\ (stored = {} => stats.avg_confidence = [num |-> 0, den |-> 1])
        /\ stats.total_relationships = Cardinality(DOMAIN relationships)

\* Statistics over two records that share a tag, one of them titled.
C25_Witness ==
  /\ call.op = "get_stats"
  /\ ret.stats.total_memories = 2
  /\ ret.stats.memories_with_titles = 1
  /\ ret.stats.unique_tags = 2
  /\ \A i \in DOMAIN memories_collection :
        \E k \in 1..Len(decode_tags(memories_collection[i].metadata.tags)) :
          decode_tags(memories_collection[i].metadata.tags)[k] = tagA

\* C26: get_stats, get, list_all, search and get_relationships are read-only:
\* none of them changes either collection or the relationship map.
ReadOps == {"get_stats", "get", "list_all", "search", "get_relationships"}

C26_ReadOnly ==
  [][call'.op \in ReadOps
       => UNCHANGED <<memories_collection, metadata_collection, relationships>>]_vars

\* A listing of a stored corpus that has a relationship.
C26_Witness ==
  /\ call.op = "list_all"
  /\ Len(ret.memories) > 0
  /\ relationships # <<>>

\* C27: every successful update stores an updated_at strictly later than the
\* record's updated_at before the update.
C27_UpdatedAtAdvances ==
  [][UpdateStep =>
       get(memories_collection', relationships', call'.id)[1].updated_at
         > get(memories_collection, relationships, call'.id)[1].updated_at]_vars

\* C28: get_storage_service returns the same StorageService instance on every
\* call in a process: at most one instance is ever constructed, also when the
\* first calls are made concurrently from a request thread and a
\* background-job thread.
C28_OneInstance ==
  /\ instances <= 1
  /\ call.op = "get_storage_service" => ret.instance = 1

\* C29: for empty or whitespace-only text generate_embedding and
\* generate_dual_embeddings return all-zero vectors of the configured
\* dimension of the respective channel (primary dimension for the primary
\* vector, secondary dimension for the secondary vector), without failing,
\* also when a model cannot be loaded.
C29_BlankTextZeroVectors ==
  (call.op \in {"generate_embedding", "generate_dual_embeddings"}
     /\ strip(call.text) = <<>>)
  => LET primary_zero == [i \in 1..call.settings.embedding_dimension |-> 0]
         secondary_zero == [i \in 1..call.settings.embedding_dimension_secondary |-> 0]
     IN  /\ ret.error = None
         /\ call.op = "generate_embedding" => ret.embedding = primary_zero
         /\ call.op = "generate_dual_embeddings" =>
              /\ ret.embedding[1] = primary_zero
              /\ call.settings.use_dual_embeddings => ret.embedding[2] = Some(secondary_zero)

\* C30: search monotonicity. For two queries Q1 and Q2 over the same corpus
\* where record R's combined score under Q1 exceeds its combined score under
\* Q2 and both exceed the active threshold (R is returned under both), R's
\* rank in the result of Q1 is at least as high as its rank in the result
\* of Q2.
PositionIn(memories, memory_id) ==
  IF \E k \in 1..Len(memories) : memories[k].id = memory_id
  THEN CHOOSE k \in 1..Len(memories) : memories[k].id = memory_id
  ELSE 0

SimilarityIn(memories, memory_id) == memories[PositionIn(memories, memory_id)].similarity[1]

\* R is returned under both queries and scores higher under the first.
ScoresHigherFirst(R) ==
  /\ PositionIn(call.first_ret.memories, R) > 0
  /\ PositionIn(ret.memories, R) > 0
  /\ SimilarityIn(call.first_ret.memories, R) > SimilarityIn(ret.memories, R)

\* Every record returned ahead of R under the first query is returned under
\* the second with a score no lower.
AheadKeepScore(R) ==
  \A k \in 1..(PositionIn(call.first_ret.memories, R) - 1) :
    LET S == call.first_ret.memories[k].id IN
      /\ PositionIn(ret.memories, S) > 0
      /\ SimilarityIn(ret.memories, S) >= call.first_ret.memories[k].similarity[1]

C30_Monotone ==
  call.op = "search_again" =>
    \A R \in Ids :
      ScoresHigherFirst(R)
        => PositionIn(call.first_ret.memories, R) <= PositionIn(ret.memories, R)

\* C30 as amended: ..., and every record returned ahead of R under Q1 is also
\* returned under Q2 with a combined score no lower than under Q1, R's rank
\* in the result of Q1 is at least as high as its rank in the result of Q2.
C30_MonotoneAmongKept ==
  call.op = "search_again" =>
    \A R \in Ids :
      (ScoresHigherFirst(R) /\ AheadKeepScore(R))
        => PositionIn(call.first_ret.memories, R) <= PositionIn(ret.memories, R)

\* R is second under both queries, behind a record that kept its score.
C30_Witness ==
  /\ call.op = "search_again"
  /\ \E R \in Ids :
       /\ ScoresHigherFirst(R)
       /\ AheadKeepScore(R)
       /\ PositionIn(call.first_ret.memories, R) = 2
       /\ PositionIn(ret.memories, R) = 2

\* C31: for every list of tag strings, decoding the stored joined tag string
\* yields the original list: the tags read back by get and list_all equal the
\* tags the record was created with.
C31_TagsRoundTrip ==
  [][(/\ nops' = nops + 1
      /\ call'.op = "create"
      /\ call'.id \notin DOMAIN memories_collection)
     => /\ decode_tags(join(call'.memory.tags)) = call'.memory.tags
        /\ get(memories_collection', relationships', call'.id)[1].tags = call'.memory.tags
        /\ \A k \in 1..Len(list_all(memories_collection', StatsLimit, 0)) :
             LET m == list_all(memories_collection', StatsLimit, 0)[k] IN
               m.id = call'.id => m.tags = call'.memory.tags]_vars

\* C32: delete_relationship(rid) removes exactly the relationship whose id is
\* rid and returns true when it is present; when it is absent it returns
\* false and the graph is unchanged; in both cases every other relationship
\* and both collections are unchanged.
C32_DeleteRelationshipFrame ==
  [][(nops' = nops + 1 /\ call'.op = "delete_relationship")
     => LET rid == call'.id IN
        /\ rid \in DOMAIN relationships =>
             /\ ret'.flag
             /\ DOMAIN relationships' = (DOMAIN relationships) \ {rid}
        /\ rid \notin DOMAIN relationships =>
             /\ ~ret'.flag
             /\ relationships' = relationships
        /\ ret'.error = None
        /\ \A i \in (DOMAIN relationships) \ {rid} :
             i \in DOMAIN relationships' /\ relationships'[i] = relationships[i]
        /\ UNCHANGED <<memories_collection, metadata_collection>>]_vars

\* One of two relationships was deleted and the other one is still there.
C32_Witness ==
  /\ call.op = "delete_relationship"
  /\ ret.flag
  /\ call.id \notin DOMAIN relationships
  /\ relationships # <<>>

\* C33: delete(B) leaves every other record unchanged in both collections and
\* leaves unchanged every relationship that does not have B as an endpoint.
C33_DeleteFrame ==
  [][(nops' = nops + 1 /\ call'.op = "delete")
     => LET B == call'.id IN
        /\ \A i \in (DOMAIN memories_collection) \ {B} :
             i \in DOMAIN memories_collection'
               /\ memories_collection'[i] = memories_collection[i]
        /\ \A i \in (DOMAIN metadata_collection) \ {B} :
             i \in DOMAIN metadata_collection'
               /\ metadata_collection'[i] = metadata_collection[i]
        /\ DOMAIN memories_collection' \subseteq DOMAIN memories_collection
        /\ DOMAIN metadata_collection' \subseteq DOMAIN metadata_collection
        /\ \A i \in DOMAIN relationships :
             ~Touches(relationships[i], B) =>
               i \in DOMAIN relationships' /\ relationships'[i] = relationships[i]
        /\ DOMAIN relationships' \subseteq DOMAIN relationships]_vars

\* delete(1) has returned with record 2 stored and a relationship between
\* 2 and 2 in the graph.
C33_Witness ==
  /\ call.op = "delete"
  /\ call.id = 1
  /\ DOMAIN memories_collection = {2}
  /\ DOMAIN metadata_collection = {2}
  /\ \E i \in DOMAIN relationships :
       relationships[i].from_memory_id = 2 /\ relationships[i].to_memory_id = 2

\* C34: after every completed create, update or delete, whether it reported
\* success or failure, the ids stored in the primary collection are the ids
\* stored in the secondary collection, and the metadata and text stored under
\* an id are the same in both.
C34_ChannelsAgree ==
  call.op \in {"create", "update", "delete"} =>
    /\ DOMAIN memories_collection = DOMAIN metadata_collection
    /\ \A i \in (DOMAIN memories_collection) \cap (DOMAIN metadata_collection) :
         /\ memories_collection[i].metadata = metadata_collection[i].metadata
         /\ memories_collection[i].document = metadata_collection[i].document

\* C35: once a caller's delete(id) has returned, get(id) returns None in every
\* later state unless some caller then invokes create with that id (no run
\* of SpecRace does): an update(id, ...) in flight on another thread never
\* re-inserts the deleted record. The states are those in which the delete
\* is the last call that returned.
C35_DeleteStays ==
  [][\A id \in Endpoints :
       ( /\ call.op = "delete"
         /\ call.id = id
         /\ get(memories_collection, relationships, id) = None )
       => get(memories_collection', relationships', id) = None]_vars

\* C36: two updates of the same record that run concurrently on different
\* threads and set different fields both take effect: after both have
\* returned, the stored record carries both new field values. The step is the
\* return of the second update, the first having returned while the second
\* was in flight.
C36_BothUpdatesApply ==
  [][\A u \in Threads :
       ( /\ threads[u].pc = "update_create"
         /\ threads'[u].pc = "idle"
         /\ call.op = "update"
         /\ call.thread # u
         /\ call.id = threads[u].id
         /\ ret.memories # None
         /\ u \in call.in_flight
         /\ (DOMAIN call.updates) \cap (DOMAIN threads[u].acc[2]) = {} )
       => LET stored == get(memories_collection', relationships', call.id)
              first == call.updates
              second == threads[u].acc[2]
          IN  /\ stored # None
              /\ \A k \in DOMAIN first : stored[1][k] = first[k][1]
              /\ \A k \in DOMAIN second : stored[1][k] = second[k][1]]_vars

\* C37: a get(id) issued by another thread while update(id, ...) is in
\* progress returns the pre-update or the post-update record, never None, for
\* a record that exists both before and after the update.
C37_GetDuringUpdate ==
  [][( /\ nops' = nops + 1
       /\ call'.op = "get"
       /\ \E t \in Threads :
            /\ threads[t].pc \in {"update_delete", "update_create"}
            /\ threads[t].id = call'.id )
     => ret'.memories # None]_vars

\* C38: background title generation only ever sets a title on a record that
\* has none: the stored record that a title task's update replaces (deletes,
\* to create it again with the generated title) carries no title, also when
\* a caller's update lands between the task's read of the record and its
\* write.
C38_TitleNotReplaced ==
  [][\A t \in Threads :
       ( /\ threads[t].pc = "update_delete"
         /\ threads'[t].pc = "update_create"
         /\ threads[t].acc[2] = GeneratedTitle
         /\ threads[t].id \in DOMAIN memories_collection )
       => ~truthy(memories_collection[threads[t].id].metadata.title)]_vars

\* C39: the UI's vector search displays exactly those search results whose
\* similarity is at least the user-chosen minimum similarity, and no result
\* whose similarity is below it.
C39_UiMinSimilarity ==
  call.op = "ui_vector_search" =>
    ret.memories = SelectSeq(call.results,
                             LAMBDA m : m.similarity[1] >= call.min_similarity)

====
